---- MODULE Spec2Model ----
(***************************************************************************)
(* A model of assembler.py, the RiSC-16 assembler.                         *)
(*                                                                         *)
(* Text is modelled as a sequence of one-character strings, so that        *)
(* str.strip, str.split, re.match, int(), bin() and str.zfill are          *)
(* computed character by character as Python computes them.                *)
(***************************************************************************)
EXTENDS Integers, Sequences, FiniteSets, TLC

VARIABLES
    src,          \* assemble_code's argument: the raw lines of the file
    code,         \* the stripped lines that pass has_code (line 137)
    newcode,      \* convert_pseudoinstructions' list, then `code` (line 139)
    LABELS,       \* the label dictionary (lines 142-144)
    machinecode,  \* the list of assembled words (line 146)
    i,            \* the position of the running for loop
    pc,           \* where assemble_code is
    outcome,      \* how assemble_code ended
    num,          \* imm_to_bin's argument num, when called on its own
    bits,         \* imm_to_bin's argument bits
    signed,       \* imm_to_bin's argument signed
    value,        \* the integer the caller wrote as the literal num
    out           \* what that call gave

vars == <<src, code, newcode, LABELS, machinecode, i, pc, outcome,
          num, bits, signed, value, out>>

pipeVars == <<src, code, newcode, LABELS, machinecode, i, pc, outcome>>
immVars == <<num, bits, signed, value, out>>

----------------------------------------------------------------------------
(* Bounds of the model.                                                    *)

MaxLines == 2      \* the longest program made of the lines of CoreLines
MaxReg == 8        \* register operands 0..MaxReg (8 does not fit 3 bits)
MaxSpace == 3      \* `.space N` for N in 0..MaxSpace
MaxMovi == 130     \* `movi R,V` for V in 0..MaxMovi
MaxBits == 7       \* imm_to_bin on its own: widths 1..MaxBits

----------------------------------------------------------------------------
(* Characters.                                                             *)

Lower == {"a","b","c","d","e","f","g","h","i","j","k","l","m",
          "n","o","p","q","r","s","t","u","v","w","x","y","z"}
Upper == {"A","B","C","D","E","F","G","H","I","J","K","L","M",
          "N","O","P","Q","R","S","T","U","V","W","X","Y","Z"}
DecDigits == <<"0","1","2","3","4","5","6","7","8","9">>
HexLower == DecDigits \o <<"a","b","c","d","e","f">>
HexUpper == DecDigits \o <<"A","B","C","D","E","F">>

\* U+00A0, the no-break space that line 63 has between "{}" and "lui"
NBSP == "NBSP"

\* \s of the re module (on str, so Unicode) and the whitespace that
\* str.strip and int() remove
IsSpace(c) == c \in {" ", "\t", NBSP}

\* \w of the re module
IsWord(c) == c \in Lower \cup Upper \cup {"_"} \cup {DecDigits[k] : k \in 1..10}

\* the value of the digit c in the given base, or -1 when c is no digit of it
DigitVal(c, base) ==
    IF \E k \in 1..base : HexLower[k] = c
    THEN (CHOOSE k \in 1..base : HexLower[k] = c) - 1
    ELSE IF \E k \in 1..base : HexUpper[k] = c
    THEN (CHOOSE k \in 1..base : HexUpper[k] = c) - 1
    ELSE -1

----------------------------------------------------------------------------
(* The str methods and built-ins the assembler uses.                       *)

RECURSIVE LStrip(_)
LStrip(s) == IF s # <<>> /\ IsSpace(Head(s)) THEN LStrip(Tail(s)) ELSE s

RECURSIVE RStrip(_)
RStrip(s) ==
    IF s # <<>> /\ IsSpace(s[Len(s)]) THEN RStrip(SubSeq(s, 1, Len(s) - 1)) ELSE s

\* str.strip()
Strip(s) == RStrip(LStrip(s))

\* str.startswith(p)
StartsWith(s, p) == Len(s) >= Len(p) /\ SubSeq(s, 1, Len(p)) = p

\* str.endswith(p)
EndsWith(s, p) == Len(s) >= Len(p) /\ SubSeq(s, Len(s) - Len(p) + 1, Len(s)) = p

\* p in s
Contains(s, p) == \E k \in 1..(Len(s) - Len(p) + 1) : SubSeq(s, k, k + Len(p) - 1) = p

\* the position of the first c in s, or 0
Find(s, c) ==
    IF \E k \in 1..Len(s) : s[k] = c
    THEN CHOOSE k \in 1..Len(s) : s[k] = c /\ \A j \in 1..(k - 1) : s[j] # c
    ELSE 0

\* str.partition(c)[0]
PartitionHead(s, c) ==
    LET k == Find(s, c) IN IF k = 0 THEN s ELSE SubSeq(s, 1, k - 1)

\* str.split(c): always at least one piece
RECURSIVE Split(_, _)
Split(s, c) ==
    LET k == Find(s, c)
    IN  IF k = 0 THEN <<s>>
        ELSE <<SubSeq(s, 1, k - 1)>> \o Split(SubSeq(s, k + 1, Len(s)), c)

\* the digits of n >= 0 in the given base, without leading zeros ("0" for 0)
RECURSIVE Digits(_, _)
Digits(n, base) ==
    IF n < base THEN <<HexLower[n + 1]>>
    ELSE Digits(n \div base, base) \o <<HexLower[(n % base) + 1]>>

\* str(n), as "{}".format(n) renders an int
Str(n) == IF n < 0 THEN <<"-">> \o Digits(-n, 10) ELSE Digits(n, 10)

\* bin(n)[2:] for n >= 0
Bin(n) == Digits(n, 2)

\* str.zfill(width) of a string without a sign
RECURSIVE ZFill(_, _)
ZFill(s, width) == IF Len(s) >= width THEN s ELSE ZFill(<<"0">> \o s, width)

\* a ^ b on non-negative integers
RECURSIVE Xor(_, _)
Xor(a, b) ==
    IF a = 0 THEN b
    ELSE IF b = 0 THEN a
    ELSE 2 * Xor(a \div 2, b \div 2) + (IF (a % 2) = (b % 2) THEN 0 ELSE 1)

RECURSIVE DigitsValue(_, _, _)
DigitsValue(s, base, acc) ==
    IF s = <<>> THEN acc
    ELSE DigitsValue(Tail(s), base, acc * base + DigitVal(Head(s), base))

\* int(s, base) on a str: surrounding whitespace, an optional sign, for base
\* 16 and 2 an optional 0x / 0b prefix, then at least one digit of the base.
\* Gives [ok |-> FALSE] where Python raises ValueError.  The underscores
\* Python allows between digits are left out: no literal here has one.
py_int(s, base) ==
    LET t == Strip(s)
        neg == t # <<>> /\ Head(t) = "-"
        u == IF t # <<>> /\ Head(t) \in {"-", "+"} THEN Tail(t) ELSE t
        pre == IF base = 16 THEN {<<"0","x">>, <<"0","X">>}
               ELSE IF base = 2 THEN {<<"0","b">>, <<"0","B">>}
               ELSE {}
        d == IF \E p \in pre : StartsWith(u, p) THEN SubSeq(u, 3, Len(u)) ELSE u
        good == d # <<>> /\ \A k \in 1..Len(d) : DigitVal(d[k], base) >= 0
        v == IF good THEN DigitsValue(d, base, 0) ELSE 0
    IN  [ok |-> good, val |-> IF neg THEN -v ELSE v]

----------------------------------------------------------------------------
(* What a function gives: a str, None, or an exception.                    *)

Returns(s) == [kind |-> "str", val |-> s, exc |-> ""]
ReturnsNone == [kind |-> "None", val |-> <<>>, exc |-> ""]
Raises(e) == [kind |-> "raise", val |-> <<>>, exc |-> e]
Pending == [kind |-> "pending", val |-> <<>>, exc |-> ""]

RECURSIVE Pow2(_)
Pow2(n) == IF n <= 0 THEN 1 ELSE 2 * Pow2(n - 1)

----------------------------------------------------------------------------
(* imm_to_bin                                                              *)

\* lines 19-27: the literal's base is chosen by a substring test
parse_num(n) ==
    LET base == IF Contains(n, <<"0","x">>) THEN 16
                ELSE IF Contains(n, <<"0","b">>) THEN 2
                ELSE 10
    IN  py_int(n, base)

\* in_range with the upper bounds one too large
in_range_loose(n, b, sg) ==
    LET maximum == IF sg THEN Pow2(b - 1) ELSE Pow2(b)
        minimum == IF sg THEN -1 * maximum ELSE 0
    IN  minimum <= n /\ n <= maximum

\* lines 29-36: the range of a width and signedness
in_range(n, b, sg) ==
    LET maximum == IF sg THEN Pow2(b - 1) - 1 ELSE Pow2(b) - 1
        minimum == IF sg THEN -1 * maximum - 1 ELSE 0
    IN  minimum <= n /\ n <= maximum

\* to_binary without the + 1 of the two's complement
to_binary_ones_complement(n, b) ==
    IF n < 0 THEN Bin(Xor(Pow2(b) - 1, -n)) ELSE ZFill(Bin(n), b)

\* lines 40-46: the binary digits of an accepted value
to_binary(n, b) ==
    IF n < 0 THEN Bin(Xor(Pow2(b) - 1, -n) + 1) ELSE ZFill(Bin(n), b)

imm_to_bin(n, b, sg) ==
    LET p == parse_num(n)
    IN  IF ~p.ok THEN Raises("ValueError: invalid literal")
        ELSE IF ~in_range(p.val, b, sg) THEN Raises("ValueError: out of range")
        ELSE Returns(to_binary(p.val, b))

----------------------------------------------------------------------------
(* Mnemonics and fixed texts.                                              *)

op_add == <<"a","d","d">>
op_addi == <<"a","d","d","i">>
op_nand == <<"n","a","n","d">>
op_lui == <<"l","u","i">>
op_sw == <<"s","w">>
op_lw == <<"l","w">>
op_beq == <<"b","e","q">>
op_jalr == <<"j","a","l","r">>
op_nop == <<"n","o","p">>
op_halt == <<"h","a","l","t">>
op_lli == <<"l","l","i">>
op_movi == <<"m","o","v","i">>
op_fill == <<".","f","i","l","l">>
op_space == <<".","s","p","a","c","e">>

\* line 58: the text that follows the label of the first emitted line
fill_0_after_label == <<" ",".","f","i","l","l"," ","0">>
\* line 60
fill_0 == <<".","f","i","l","l"," ","0">>
\* line 106
nop_word == <<"0","0","0","0","0","0","0","0","0","0","0","0","0","0","0","0","0">>
\* line 109
halt_prefix == <<"1","1","1","0","0","0","0","0","0">>

----------------------------------------------------------------------------
(* The re.match of lines 53 and 79: an optional label (a word and a       *)
(* colon), optional whitespace, the operation (an optional dot and a       *)
(* word), one optional whitespace character, and the rest as the args.     *)

\* the length of the longest run of \w at the start of s
RECURSIVE WordRun(_)
WordRun(s) == IF s # <<>> /\ IsWord(Head(s)) THEN 1 + WordRun(Tail(s)) ELSE 0

NoMatch == [ok |-> FALSE, label |-> <<>>, operation |-> <<>>, args |-> <<>>]

\* the pattern from (?:\s+)? on, applied to rest, with group 1 already decided
MatchFrom(rest, label) ==
    LET r1 == LStrip(rest)
        dot == IF r1 # <<>> /\ Head(r1) = "." THEN 1 ELSE 0
        w == WordRun(SubSeq(r1, dot + 1, Len(r1)))
        after == SubSeq(r1, dot + w + 1, Len(r1))
    IN  IF w = 0 THEN NoMatch
        ELSE [ok |-> TRUE,
              label |-> label,
              operation |-> SubSeq(r1, 1, dot + w),
              args |-> IF after # <<>> /\ IsSpace(Head(after)) THEN Tail(after) ELSE after]

\* m[1] is None when group 1 took no part in the match: label <<>> here.
\* The engine first tries group 1 (a word and a colon) and, when the rest of
\* the pattern then fails, matches again without it.
Match(line) ==
    LET w == WordRun(line)
        withLabel == IF w >= 1 /\ Len(line) > w /\ line[w + 1] = ":"
                     THEN MatchFrom(SubSeq(line, w + 2, Len(line)), SubSeq(line, 1, w + 1))
                     ELSE NoMatch
    IN  IF withLabel.ok THEN withLabel ELSE MatchFrom(line, <<>>)

----------------------------------------------------------------------------
(* has_code and the stripping of line 137                                  *)

\* line 124: not line.strip().startswith("#") or (line.strip() == "")
has_code(line) ==
    LET s == Strip(line) IN ~StartsWith(s, <<"#">>) \/ (s = <<>>)

\* line 137: (line.strip() for line in code if has_code(line))
RECURSIVE strip_code(_)
strip_code(lines) ==
    IF lines = <<>> THEN <<>>
    ELSE (IF has_code(Head(lines)) THEN <<Strip(Head(lines))>> ELSE <<>>)
         \o strip_code(Tail(lines))

----------------------------------------------------------------------------
(* convert_pseudoinstructions, one pass of its loop                        *)

Expanded(ls) == [exc |-> "", lines |-> ls]
ExpandRaises(e) == [exc |-> e, lines |-> <<>>]

\* lines 58-60: the labelled first line, then range(n - 1) more
space_lines(label, n) ==
    <<label \o fill_0_after_label>> \o [k \in 1..(IF n - 1 > 0 THEN n - 1 ELSE 0) |-> fill_0]

\* movi_lines with the high part taken above bit 7 instead of bit 6
movi_lines_wrong_split(label, regA, imm) ==
    << label \o <<NBSP>> \o op_lui \o <<" ">> \o regA \o <<",">> \o Str(imm \div 128),
       op_lli \o <<" ">> \o regA \o <<",">> \o Str(imm % 64) >>

\* lines 63-64
movi_lines(label, regA, imm) ==
    << label \o <<NBSP>> \o op_lui \o <<" ">> \o regA \o <<",">> \o Str(imm \div 64),
       op_lli \o <<" ">> \o regA \o <<",">> \o Str(imm % 64) >>

\* lines 53-66, for one line of the loop
expand_line(line) ==
    LET m == Match(line)
        label == m.label        \* None becomes "" (lines 55-56)
        parts == Split(m.args, ",")
        count == py_int(m.args, 10)       \* int(args), line 59
        imm == py_int(parts[2], 10)       \* int(imm), lines 63-64
    IN  IF ~m.ok THEN ExpandRaises("TypeError: 'NoneType' object is not subscriptable")
        ELSE IF m.operation = op_space
        THEN IF ~count.ok THEN ExpandRaises("ValueError: invalid literal")
             ELSE Expanded(space_lines(label, count.val))
        ELSE IF m.operation = op_movi
        THEN IF Len(parts) # 2 THEN ExpandRaises("ValueError: unpack")
             ELSE IF ~imm.ok THEN ExpandRaises("ValueError: invalid literal")
             ELSE Expanded(movi_lines(label, parts[1], imm.val))
        ELSE Expanded(<<line>>)

----------------------------------------------------------------------------
(* The label dictionary of lines 142-144                                   *)

\* the positions (1-based) of the lines whose first space-delimited token
\* ends with a colon
labelled(c) == {k \in 1..Len(c) : EndsWith(PartitionHead(c[k], " "), <<":">>)}

\* dict(...) keeps the last index given for a key; indices are 0-based
find_labels(c) ==
    LET at == labelled(c)
        key == [k \in at |-> PartitionHead(c[k], ":")]
    IN  [name \in {key[k] : k \in at} |->
            (CHOOSE k \in at : key[k] = name /\ \A j \in at : key[j] = name => j <= k) - 1]

----------------------------------------------------------------------------
(* assemble_line                                                           *)

\* the opcode table with add and addi exchanged
opcode_swapped(operation) ==
    CASE operation = op_add -> <<"0","0","1">>
      [] operation = op_addi -> <<"0","0","0">>
      [] operation = op_nand -> <<"0","1","0">>
      [] operation = op_lui -> <<"0","1","1">>
      [] operation = op_sw -> <<"1","0","0">>
      [] operation = op_lw -> <<"1","0","1">>
      [] operation = op_beq -> <<"1","1","0">>
      [] operation = op_jalr -> <<"1","1","1">>
      [] OTHER -> <<>>

\* lines 81-88; .get gives None for any other operation, <<>> here, and no
\* branch that uses opcode is taken then
opcode(operation) ==
    CASE operation = op_add -> <<"0","0","0">>
      [] operation = op_addi -> <<"0","0","1">>
      [] operation = op_nand -> <<"0","1","0">>
      [] operation = op_lui -> <<"0","1","1">>
      [] operation = op_sw -> <<"1","0","0">>
      [] operation = op_lw -> <<"1","0","1">>
      [] operation = op_beq -> <<"1","1","0">>
      [] operation = op_jalr -> <<"1","1","1">>
      [] OTHER -> <<>>

\* str + str + ..., left to right: the first operand that raises ends it
RECURSIVE Cat(_)
Cat(rs) ==
    IF rs = <<>> THEN Returns(<<>>)
    ELSE IF Head(rs).kind = "raise" THEN Head(rs)
    ELSE LET rest == Cat(Tail(rs))
         IN  IF rest.kind = "raise" THEN rest ELSE Returns(Head(rs).val \o rest.val)

\* The operands of the concatenation a branch of assemble_line returns, in
\* the order Python evaluates them: a fixed text, or a call of imm_to_bin.
Lit(s) == [imm |-> FALSE, text |-> s, bits |-> 0, signed |-> FALSE]
Imm(s, b, sg) == [imm |-> TRUE, text |-> s, bits |-> b, signed |-> sg]

\* A branch: the operands it evaluates, and whether its tuple unpacking of
\* args.split(",") succeeds.
Branch(unpacks, fields) == [known |-> TRUE, unpacks |-> unpacks, fields |-> fields]
NoBranch == [known |-> FALSE, unpacks |-> TRUE, fields |-> <<>>]

\* lines 92-93. The three targets are unpacked from a generator: the
\* operands are converted one at a time, a fourth one too before the
\* unpacking finds it has too many.
rrr(operation, parts) ==
    IF Len(parts) = 3
    THEN Branch(TRUE, <<Lit(opcode(operation)), Imm(parts[1], 3, FALSE),
                        Imm(parts[2], 3, FALSE), Lit(<<"0","0","0","0">>),
                        Imm(parts[3], 3, FALSE)>>)
    ELSE Branch(FALSE, [k \in 1..(IF Len(parts) < 4 THEN Len(parts) ELSE 4) |->
                            Imm(parts[k], 3, FALSE)])

\* lines 96-98
rri(operation, parts) ==
    IF Len(parts) = 3
    THEN Branch(TRUE, <<Lit(opcode(operation)), Imm(parts[1], 3, FALSE),
                        Imm(parts[2], 3, FALSE), Imm(parts[3], 7, TRUE)>>)
    ELSE Branch(FALSE, <<>>)

\* lines 101-102
ri(operation, parts) ==
    IF Len(parts) = 2
    THEN Branch(TRUE, <<Lit(opcode(operation)), Imm(parts[1], 3, FALSE),
                        Imm(parts[2], 10, FALSE)>>)
    ELSE Branch(FALSE, <<>>)

\* lines 112-113: imm_to_bin(regA, 3) * 2 is the register's field twice
lli(parts) ==
    IF Len(parts) = 2
    THEN Branch(TRUE, <<Lit(<<"0","0","1">>), Imm(parts[1], 3, FALSE),
                        Imm(parts[1], 3, FALSE), Lit(<<"0">>),
                        Imm(parts[2], 6, FALSE)>>)
    ELSE Branch(FALSE, <<>>)

\* lines 91-116: the branch taken for an operation
dispatch(operation, args) ==
    LET parts == Split(args, ",")
    IN  IF operation \in {op_add, op_nand} THEN rrr(operation, parts)
        ELSE IF operation \in {op_addi, op_sw, op_lw, op_beq, op_jalr}
        THEN rri(operation, parts)
        ELSE IF operation = op_lui THEN ri(operation, parts)
        ELSE IF operation = op_nop THEN Branch(TRUE, <<Lit(nop_word)>>)
        ELSE IF operation = op_halt
        THEN Branch(TRUE, <<Lit(halt_prefix), Imm(<<"1">>, 7, FALSE)>>)
        ELSE IF operation = op_lli THEN lli(parts)
        ELSE IF operation = op_fill THEN Branch(TRUE, <<Imm(args, 16, TRUE)>>)
        ELSE NoBranch

\* the value of a branch: its operands converted in order and concatenated
evaluate(branch) ==
    LET f == branch.fields
        word == Cat([k \in DOMAIN f |->
                        IF f[k].imm THEN imm_to_bin(f[k].text, f[k].bits, f[k].signed)
                        ELSE Returns(f[k].text)])
    IN  IF word.kind = "raise" THEN word
        ELSE IF ~branch.unpacks THEN Raises("ValueError: unpack")
        ELSE word

\* lines 79-116; the function ends without a return, so gives None, when no
\* branch takes the operation
assemble_line(line) ==
    LET m == Match(line)
        branch == dispatch(m.operation, m.args)
    IN  IF ~m.ok THEN Raises("TypeError: 'NoneType' object is not subscriptable")
        ELSE IF ~branch.known THEN ReturnsNone
        ELSE evaluate(branch)

----------------------------------------------------------------------------
(* The programs given to assemble_code.                                    *)

RECURSIVE Join(_, _)
Join(parts, sep) ==
    IF parts = <<>> THEN <<>>
    ELSE IF Len(parts) = 1 THEN parts[1]
    ELSE parts[1] \o sep \o Join(Tail(parts), sep)

\* "[label: ]operation args", the operands joined by commas
Instr(label, operation, operands) ==
    (IF label = <<>> THEN <<>> ELSE label \o <<":", " ">>)
    \o operation
    \o (IF operands = <<>> THEN <<>> ELSE <<" ">> \o Join(operands, <<",">>))

NoLabel == <<>>
lab_L == <<"L">>
reg_r2 == <<"r","2">>

SignedImms == {-65, -64, -1, 0, 5, 63, 64}
FillImms == {-32769, -32768, -1, 0, 5, 32767, 32768}
LuiImms == {0, 1, 1023, 1024}
LliImms == {0, 1, 63, 64}

RRRLines ==
    {Instr(NoLabel, o, <<Str(a), Str(b), Str(c)>>) :
        o \in {op_add, op_nand}, a \in 0..MaxReg, b \in 0..MaxReg, c \in 0..MaxReg}

\* the same with registers written r0, r1, ...
Reg(a) == <<"r">> \o Str(a)

RegSyntaxLines ==
    {Instr(NoLabel, o, <<Reg(a), Reg(b), Reg(c)>>) :
        o \in {op_add, op_nand}, a \in 0..MaxReg, b \in 0..MaxReg, c \in 0..MaxReg}

RRILines ==
    {Instr(NoLabel, o, <<Str(a), Str(b), Str(v)>>) :
        o \in {op_addi, op_sw, op_lw, op_beq, op_jalr},
        a \in {0, 5}, b \in {0, 7}, v \in SignedImms}

RILines ==
    {Instr(NoLabel, op_lui, <<Str(a), Str(v)>>) : a \in {0, 5}, v \in LuiImms}
    \cup {Instr(NoLabel, op_lli, <<Str(a), Str(v)>>) : a \in {0, 5}, v \in LliImms}
    \cup {Instr(NoLabel, op_fill, <<Str(v)>>) : v \in FillImms}

SpaceLine(label, n) == Instr(label, op_space, <<Str(n)>>)
MoviLine(label, regA, v) == Instr(label, op_movi, <<regA, Str(v)>>)

PseudoLines ==
    {SpaceLine(l, n) : l \in {NoLabel, lab_L}, n \in 0..MaxSpace}
    \cup {MoviLine(l, r, v) : l \in {NoLabel, lab_L}, r \in {Str(2), reg_r2}, v \in 0..MaxMovi}

ln_add_r == <<"a","d","d"," ","r","1",",","r","2",",","r","3">>
ln_addi_r == <<"a","d","d","i"," ","r","0",",","r","0",",","5">>
ln_add_123 == <<"a","d","d"," ","1",",","2",",","3">>
ln_addi_005 == <<"a","d","d","i"," ","0",",","0",",","5">>
ln_addi_hex == <<"a","d","d","i"," ","1",",","2",",","0","x","1","f">>
ln_addi_bin == <<"a","d","d","i"," ","1",",","2",",","-","0","b","1","0","1">>
ln_addi_big == <<"a","d","d","i"," ","1",",","2",",","6","4">>
ln_L_addi_neg == <<"L",":"," ","a","d","d","i"," ","0",",","0",",","-","1">>
ln_L_halt == <<"L",":"," ","h","a","l","t">>
ln_L_space_2 == <<"L",":"," ",".","s","p","a","c","e"," ","2">>
ln_space_0 == <<".","s","p","a","c","e"," ","0">>
ln_movi_65 == <<"m","o","v","i"," ","2",",","6","5">>
ln_nop == <<"n","o","p">>
ln_halt == <<"h","a","l","t">>
ln_foo == <<"f","o","o"," ","1",",","2">>
ln_sub == <<"s","u","b"," ","1",",","2",",","3">>
ln_empty == <<>>
ln_blank == <<" "," "," ">>
ln_comment == <<"#"," ","c">>
ln_comment_indented == <<" "," ","#"," ","c">>
ln_add_two == <<"a","d","d"," ","1",",","2">>
ln_add_four == <<"a","d","d"," ","1",",","2",",","3",",","4">>
ln_space_x == <<".","s","p","a","c","e"," ","x">>
ln_movi_one == <<"m","o","v","i"," ","1">>
ln_add_padded == <<" "," ","a","d","d"," ","1",",","2",",","3"," "," ">>
ln_add_spaced == <<"a","d","d"," ","1",","," ","2",","," ","3">>
ln_label_only == <<"L",":">>

OddLines ==
    {ln_add_r, ln_addi_r, ln_addi_hex, ln_addi_bin, ln_nop, ln_halt, ln_L_halt,
     ln_foo, ln_sub, ln_empty, ln_blank, ln_comment, ln_comment_indented,
     ln_add_two, ln_add_four, ln_space_x, ln_movi_one, ln_add_padded,
     ln_add_spaced, ln_label_only}

\* the lines of the one-line programs
RichLines ==
    RRRLines \cup RegSyntaxLines \cup RRILines \cup RILines \cup PseudoLines \cup OddLines

\* the lines of the longer programs
CoreLines ==
    {ln_add_123, ln_L_addi_neg, ln_L_halt, ln_empty, ln_comment, ln_foo,
     ln_L_space_2, ln_space_0, ln_movi_65, ln_addi_big, ln_nop}

Programs ==
    {<<l>> : l \in RichLines}
    \cup UNION {[1..n -> CoreLines] : n \in 0..MaxLines}

----------------------------------------------------------------------------
(* assemble_code, lines 127-156                                            *)

NoLabels == [name \in {} |-> 0]

Init ==
    /\ src \in Programs
    /\ code = <<>>
    /\ newcode = <<>>
    /\ LABELS = NoLabels
    /\ machinecode = <<>>
    /\ i = 1
    /\ pc = "strip"
    /\ outcome = "running"
    /\ num = <<>>
    /\ bits = 0
    /\ signed = FALSE
    /\ value = 0
    /\ out = Pending

\* line 137
Preprocess ==
    /\ pc = "strip"
    /\ code' = strip_code(src)
    /\ pc' = "expand"
    /\ UNCHANGED <<src, newcode, LABELS, machinecode, i, outcome>>
    /\ UNCHANGED immVars

\* line 139, one pass of the loop of lines 52-66; an exception raised there
\* is not caught by assemble_code, and the list built so far is lost with
\* convert_pseudoinstructions' frame
ExpandLine ==
    /\ pc = "expand"
    /\ i <= Len(code)
    /\ LET e == expand_line(code[i])
       IN  IF e.exc # ""
           THEN /\ pc' = "done"
                /\ outcome' = "raised"
                /\ UNCHANGED <<newcode, i>>
           ELSE /\ newcode' = newcode \o e.lines
                /\ i' = i + 1
                /\ UNCHANGED <<pc, outcome>>
    /\ UNCHANGED <<src, code, LABELS, machinecode>>
    /\ UNCHANGED immVars

\* line 67 and lines 142-146
ResolveLabels ==
    /\ pc = "expand"
    /\ i > Len(code)
    /\ LABELS' = find_labels(newcode)
    /\ i' = 1
    /\ pc' = "assemble"
    /\ UNCHANGED <<src, code, newcode, machinecode, outcome>>
    /\ UNCHANGED immVars

\* lines 147-154, one pass of the loop: what assemble_line returns is
\* appended, None too; an exception ends assemble_code with None
AssembleLine ==
    /\ pc = "assemble"
    /\ i <= Len(newcode)
    /\ LET r == assemble_line(newcode[i])
       IN  IF r.kind = "raise"
           THEN /\ pc' = "done"
                /\ outcome' = "None"
                /\ UNCHANGED <<machinecode, i>>
           ELSE /\ machinecode' = Append(machinecode, r)
                /\ i' = i + 1
                /\ UNCHANGED <<pc, outcome>>
    /\ UNCHANGED <<src, code, newcode, LABELS>>
    /\ UNCHANGED immVars

\* line 156
ReturnMachinecode ==
    /\ pc = "assemble"
    /\ i > Len(newcode)
    /\ pc' = "done"
    /\ outcome' = "list"
    /\ UNCHANGED <<src, code, newcode, LABELS, machinecode, i>>
    /\ UNCHANGED immVars

Next ==
    \/ Preprocess
    \/ ExpandLine
    \/ ResolveLabels
    \/ AssembleLine
    \/ ReturnMachinecode

Spec == Init /\ [][Next]_vars

----------------------------------------------------------------------------
(* imm_to_bin called on its own, for every literal of a range of values.   *)

\* the text of v in one of the three notations of lines 19-27
Literal(v, form) ==
    LET sign == IF v < 0 THEN <<"-">> ELSE <<>>
        mag == IF v < 0 THEN -v ELSE v
    IN  CASE form = "dec" -> Str(v)
          [] form = "hex" -> sign \o <<"0","x">> \o Digits(mag, 16)
          [] form = "bin" -> sign \o <<"0","b">> \o Digits(mag, 2)

ImmValues == (-(Pow2(MaxBits) + 2))..(Pow2(MaxBits) + 2)

InitImm ==
    /\ src = <<>>
    /\ code = <<>>
    /\ newcode = <<>>
    /\ LABELS = NoLabels
    /\ machinecode = <<>>
    /\ i = 1
    /\ pc = "imm"
    /\ outcome = "running"
    /\ value \in ImmValues
    /\ num \in {Literal(value, f) : f \in {"dec", "hex", "bin"}}
    /\ bits \in 1..MaxBits
    /\ signed \in BOOLEAN
    /\ out = Pending

CallImmToBin ==
    /\ pc = "imm"
    /\ out = Pending
    /\ out' = imm_to_bin(num, bits, signed)
    /\ UNCHANGED <<num, bits, signed, value>>
    /\ UNCHANGED pipeVars

NextImm == CallImmToBin

SpecImm == InitImm /\ [][NextImm]_vars

----------------------------------------------------------------------------
(* Readings of the output that do not go through the assembler's code.     *)

IsBinary(w) == \A k \in 1..Len(w) : w[k] \in {"0", "1"}

\* the unsigned value of a string of binary digits
RECURSIVE UnsignedValue(_)
UnsignedValue(w) ==
    IF w = <<>> THEN 0
    ELSE 2 * UnsignedValue(SubSeq(w, 1, Len(w) - 1)) + (IF w[Len(w)] = "1" THEN 1 ELSE 0)

\* its value read as two's complement of Len(w) bits
TwosComplementValue(w) ==
    IF w # <<>> /\ w[1] = "1" THEN UnsignedValue(w) - 2^Len(w) ELSE UnsignedValue(w)

\* a non-empty string of decimal digits, and the number it writes
IsDecimal(w) == w # <<>> /\ \A k \in 1..Len(w) : \E d \in 1..10 : DecDigits[d] = w[k]

RECURSIVE DecimalValue(_)
DecimalValue(w) ==
    IF w = <<>> THEN 0
    ELSE 10 * DecimalValue(SubSeq(w, 1, Len(w) - 1))
         + (CHOOSE d \in 0..9 : DecDigits[d + 1] = w[Len(w)])

\* a in 0..7 as three binary digits
Bits3(a) ==
    << IF a \div 4 = 1 THEN "1" ELSE "0",
       IF (a \div 2) % 2 = 1 THEN "1" ELSE "0",
       IF a % 2 = 1 THEN "1" ELSE "0" >>

\* the mnemonics an instruction may have after expansion
Recognised ==
    {op_add, op_nand, op_addi, op_sw, op_lw, op_beq, op_jalr, op_lui,
     op_nop, op_halt, op_lli, op_fill}

\* the lines preprocessing is to pass on: trimmed, leaving out the empty
\* ones and the comments
RECURSIVE KeptLines(_)
KeptLines(lines) ==
    IF lines = <<>> THEN <<>>
    ELSE LET s == Strip(Head(lines))
         IN  (IF s = <<>> \/ s[1] = "#" THEN <<>> ELSE <<s>>) \o KeptLines(Tail(lines))

\* the RRR word of the format table
RRRWord(o, a, b, c) ==
    (IF o = op_add THEN <<"0","0","0">> ELSE <<"0","1","0">>)
    \o Bits3(a) \o Bits3(b) \o <<"0","0","0","0">> \o Bits3(c)

word_add_1_2_3 == <<"0","0","0","0","0","1","0","1","0","0","0","0","0","0","1","1">>
word_addi_0_0_5 == <<"0","0","1","0","0","0","0","0","0","0","0","0","0","1","0","1">>

\* assemble_code has returned the one-word list <<w>>
ReturnedWord(w) == outcome = "list" /\ machinecode = <<Returns(w)>>

----------------------------------------------------------------------------
(* The claims.                                                             *)

\* C1: every machine word assemble_code returns is a string of exactly 16
\* characters, each '0' or '1'.  (Fails: nop is a 17-character word.)
C1_WordsHave16Bits ==
    outcome = "list" =>
        \A k \in 1..Len(machinecode) :
            machinecode[k].kind = "str" =>
                Len(machinecode[k].val) = 16 /\ IsBinary(machinecode[k].val)

\* C2: when an instruction of the expanded program has a mnemonic outside the
\* recognised set, assemble_code returns no machine-code list.  (Fails: the
\* list is returned, with None in that instruction's place.)
C2_UnknownMnemonicFails ==
    outcome = "list" =>
        \A k \in 1..Len(newcode) : Match(newcode[k]).operation \in Recognised

\* C3: when two different instructions of the expanded program carry the same
\* label, assemble_code produces no machine code.  (Fails: the dictionary
\* keeps the later one and the program assembles.)
C3_DuplicateLabelFails ==
    outcome = "list" =>
        \A j \in 1..Len(newcode), k \in 1..Len(newcode) :
            (j # k /\ Match(newcode[j]).label # <<>>)
                => Match(newcode[j]).label # Match(newcode[k]).label

\* C4: assemble_code is all-or-nothing: it ends in a failure, or returns a
\* list with one word per expanded instruction, the i-th being the encoding
\* of the i-th instruction.  (Fails through C2: an entry may be None.)
C4_AllOrNothing ==
    pc = "done" =>
        \/ outcome \in {"None", "raised"}
        \/ /\ outcome = "list"
           /\ Len(machinecode) = Len(newcode)
           /\ \A k \in 1..Len(machinecode) :
                /\ machinecode[k].kind = "str"
                /\ machinecode[k] = assemble_line(newcode[k])

\* C5: preprocessing passes on exactly the lines, trimmed and in order, whose
\* trimmed form is neither empty nor a comment.  (Fails: has_code keeps the
\* empty lines.)
C5_PreprocessDropsBlankAndComment ==
    pc \in {"expand", "assemble", "done"} => code = KeptLines(src)

\* C6: `.space N` becomes exactly N instructions `.fill 0`, the first carrying
\* the line's label and the others none, for every N >= 0.  (Fails: N = 0
\* gives one instruction.)
C6_SpaceEmitsN ==
    [][(pc = "expand" /\ i <= Len(code) /\ Match(code[i]).operation = op_space) =>
        \A l \in {NoLabel, lab_L}, n \in 0..MaxSpace :
            code[i] = SpaceLine(l, n) =>
                /\ Len(newcode') = Len(newcode) + n
                /\ SubSeq(newcode', 1, Len(newcode)) = newcode
                /\ \A k \in 1..n :
                     LET m == Match(newcode'[Len(newcode) + k])
                     IN  /\ m.ok
                         /\ m.operation = op_fill
                         /\ m.args = <<"0">>
                         /\ m.label = (IF k = 1 /\ l # NoLabel THEN l \o <<":">> ELSE <<>>)
      ]_vars

\* C7, as amended: `add A,B,C` and `nand A,B,C` with the registers written as
\* the integers 0..7 assemble to opcode + A + B + 0000 + C in 3-bit fields;
\* `add 1,2,3` gives 0000010100000011 and `addi 0,0,5` gives
\* 0010000000000101.
C7_RRRWithIntegerRegisters ==
    (pc = "done" /\ Len(src) = 1) =>
        /\ \A o \in {op_add, op_nand}, a \in 0..7, b \in 0..7, c \in 0..7 :
              src = <<Instr(NoLabel, o, <<Str(a), Str(b), Str(c)>>)>>
                  => ReturnedWord(RRRWord(o, a, b, c))
        /\ src = <<ln_add_123>> => ReturnedWord(word_add_1_2_3)
        /\ src = <<ln_addi_005>> => ReturnedWord(word_addi_0_0_5)

C7_Witness ==
    pc = "done" /\ src = <<ln_add_123>> /\ ReturnedWord(word_add_1_2_3)

\* C7 as claimed: the same of `add rA,rB,rC`, `nand rA,rB,rC` and
\* `addi r0,r0,5`, the registers written r0..r7.
C7_RRRWithRegisterSyntax ==
    (pc = "done" /\ Len(src) = 1) =>
        /\ \A o \in {op_add, op_nand}, a \in 0..7, b \in 0..7, c \in 0..7 :
              src = <<Instr(NoLabel, o, <<Reg(a), Reg(b), Reg(c)>>)>>
                  => ReturnedWord(RRRWord(o, a, b, c))
        /\ src = <<ln_add_r>> => ReturnedWord(word_add_1_2_3)
        /\ src = <<ln_addi_r>> => ReturnedWord(word_addi_0_0_5)

\* C8: for every in-range value, imm_to_bin gives exactly `bits` binary
\* digits whose unsigned value (unsigned) or two's-complement value (signed)
\* is the value.
C8_RoundTrip ==
    out # Pending =>
        /\ (~signed /\ 0 <= value /\ value <= 2^bits - 1) =>
              /\ out.kind = "str"
              /\ Len(out.val) = bits
              /\ IsBinary(out.val)
              /\ UnsignedValue(out.val) = value
        /\ (signed /\ -(2^(bits - 1)) <= value /\ value <= 2^(bits - 1) - 1) =>
              /\ out.kind = "str"
              /\ Len(out.val) = bits
              /\ IsBinary(out.val)
              /\ TwosComplementValue(out.val) = value

\* the signed boundary -2^(bits-1): the top bit 1 and every other bit 0
C8_Witness ==
    /\ signed
    /\ bits = 3
    /\ value = -4
    /\ out = Returns(<<"1","0","0">>)

\* C9: imm_to_bin raises the out-of-range error exactly when the value is
\* outside [0, 2^bits - 1] (unsigned) or [-2^(bits-1), 2^(bits-1) - 1]
\* (signed), and returns a string for every value inside.
C9_RangeCheck ==
    out # Pending =>
        LET inside == IF signed
                      THEN -(2^(bits - 1)) <= value /\ value <= 2^(bits - 1) - 1
                      ELSE 0 <= value /\ value <= 2^bits - 1
        IN  /\ (out = Raises("ValueError: out of range")) <=> ~inside
            /\ inside <=> out.kind = "str"

\* the boundary plus one, unsigned or signed, has raised
C9_Witness ==
    /\ out = Raises("ValueError: out of range")
    /\ IF signed THEN value = 2^(bits - 1) ELSE value = 2^bits

\* C10: `movi R,V` with V >= 0 becomes `lui R, V div 64` and then
\* `lli R, V mod 64`: 64 * high + low = V with low in 0..63; the label of the
\* movi line is on the lui and the lli has none; no movi is emitted.
C10_MoviSplits ==
    [][(pc = "expand" /\ i <= Len(code) /\ Match(code[i]).operation = op_movi) =>
        \A l \in {NoLabel, lab_L}, r \in {Str(2), reg_r2}, v \in 0..MaxMovi :
            code[i] = MoviLine(l, r, v) =>
                /\ Len(newcode') = Len(newcode) + 2
                /\ SubSeq(newcode', 1, Len(newcode)) = newcode
                /\ LET hi == Match(newcode'[Len(newcode) + 1])
                       lo == Match(newcode'[Len(newcode) + 2])
                       hiArgs == Split(hi.args, ",")
                       loArgs == Split(lo.args, ",")
                   IN  /\ hi.ok /\ lo.ok
                       /\ hi.operation = op_lui /\ lo.operation = op_lli
                       /\ hi.label = (IF l = NoLabel THEN <<>> ELSE l \o <<":">>)
                       /\ lo.label = <<>>
                       /\ Len(hiArgs) = 2 /\ Len(loArgs) = 2
                       /\ hiArgs[1] = r /\ loArgs[1] = r
                       /\ IsDecimal(hiArgs[2]) /\ IsDecimal(loArgs[2])
                       /\ DecimalValue(hiArgs[2]) = v \div 64
                       /\ DecimalValue(loArgs[2]) = v % 64
                       /\ 64 * DecimalValue(hiArgs[2]) + DecimalValue(loArgs[2]) = v
                       /\ DecimalValue(loArgs[2]) \in 0..63
      ]_vars

\* `L: movi 2,65` has been expanded
C10_Witness ==
    /\ src = <<MoviLine(lab_L, Str(2), 65)>>
    /\ pc = "assemble"
    /\ Len(newcode) = 2
    /\ Match(newcode[1]).operation = op_lui
    /\ Match(newcode[2]).operation = op_lli

====
